---- MODULE Spec2Model ----
\* Bear Notes MCP server (src/src/bear-mcp-server.js): startup, the list-tools
\* handler and the call-tool handler with its six tool branches.  The helpers
\* imported from ./utils.js (searchNotes, retrieveNote, getAllTags,
\* retrieveForRAG, createVectorIndex, loadVectorIndex, initEmbedder) are not
\* part of the sources at hand and are modelled from the specification.
EXTENDS Integers, Sequences, FiniteSets, TLC

VARIABLES
  phase,              \* "starting" | "ready" | "exited"   (main, lines 48-50, 376-379)
  db,                 \* "none" | "open"                   (const db, line 50)
  hasSemanticSearch,  \* const hasSemanticSearch, line 50
  modelInitialized,   \* outcome of initEmbedder(), line 32
  indexLoaded,        \* outcome of loadVectorIndex(), line 38
  activeIndex,        \* the active vector index held by utils.js
  rebuild,            \* the in-flight createVectorIndex call of reindex_notes
  response            \* outcome of the last list-tools or call-tool request

vars == <<phase, db, hasSemanticSearch, modelInitialized, indexLoaded,
          activeIndex, rebuild, response>>

-----------------------------------------------------------------------------
\* Bounds of the model.

\* Notes in the store, listed by modification date, most recent first.
NumNotes == 13
\* Largest explicit limit argument a request carries.
MaxLimit == 2
\* Most tag lookups that fail in one find_note_by_partial_id request.
MaxTagFailures == 1
\* Notes (the first NumFlaky indexable ones) whose embedding call may throw.
NumFlaky == 2

-----------------------------------------------------------------------------
\* The note store (ZSFNOTE, ZSFNOTETAG, Z_5TAGS) as the queries see it.

Letters == <<"a", "b", "c">>

DigitChar == <<"0", "1", "2", "3", "4", "5", "6", "7", "8", "9">>

\* A nullable column: <<>> is NULL, <<v>> is the value v.
Null == <<>>

\* ZCREATIONDATE values met in the store: seconds since 2001-01-01T00:00:00Z.
NativeDates == <<Null, <<0>>, <<1>>, <<31536000>>, <<86399>>, <<694310400>>>>

NoteIds == 1..NumNotes

\* ZTRASHED = 1
Trashed == {3}

NoteUid(i) == <<DigitChar[(i \div 10) + 1], DigitChar[(i % 10) + 1]>>

NoteTitle(i) == <<"n", Letters[(i % 3) + 1]>>

NoteContent(i) == <<"t", Letters[(i % 2) + 1]>>

NoteCreationDate(i) == NativeDates[(i % Len(NativeDates)) + 1]

NoteTags(i) == IF i % 4 = 0 THEN <<>> ELSE IF i % 2 = 0 THEN <<"work">> ELSE <<"home", "work">>

\* Text fragments a request carries as query or partial_id.
Fragments == {<<"n">>, <<"N", "a">>, <<"1">>, <<"z">>}

\* SQLite LIKE compares ASCII letters without regard to case.
Fold(c) == IF c = "N" THEN "n" ELSE c

\* s LIKE '%f%'
Like(s, f) ==
  \E k \in 0..(Len(s) - Len(f)) :
    \A j \in 1..Len(f) : Fold(s[k + j]) = Fold(f[j])

Take(s, n) == IF n >= Len(s) THEN s ELSE SubSeq(s, 1, n)

\* Positions of the store in ORDER BY ZMODIFICATIONDATE DESC.
AllByModification == [i \in 1..NumNotes |-> i]

\* WHERE ZTRASHED = 0
NotTrashed(i) == i \notin Trashed

-----------------------------------------------------------------------------
\* Program constants.

\* LIMIT 10 of the find_note_by_partial_id query
PartialLimit == 10
\* limit = 10 of search_notes
DefaultSearchLimit == 10
\* limit = 5 of retrieve_for_rag
DefaultRagLimit == 5
\* Seconds from 1970-01-01 to 2001-01-01
AppleEpochOffset == 978307200

-----------------------------------------------------------------------------
\* new Date(ms).toISOString() for a whole number of seconds since 1970, as the
\* fields of YYYY-MM-DDTHH:mm:ss.sssZ (proleptic Gregorian calendar, UTC).
ToISOString(secs) ==
  LET days == secs \div 86400
      sod  == secs % 86400
      z    == days + 719468
      era  == z \div 146097
      doe  == z - era * 146097
      yoe  == (doe - doe \div 1460 + doe \div 36524 - doe \div 146096) \div 365
      doy  == doe - (365 * yoe + yoe \div 4 - yoe \div 100)
      mp   == (5 * doy + 2) \div 153
      d    == doy - (153 * mp + 2) \div 5 + 1
      m    == IF mp < 10 THEN mp + 3 ELSE mp - 9
      y    == yoe + era * 400 + (IF m <= 2 THEN 1 ELSE 0)
  IN [year |-> y, month |-> m, day |-> d,
      hour |-> sod \div 3600, minute |-> (sod % 3600) \div 60, second |-> sod % 60,
      ms |-> 0]

\* if (note.creation_date): NULL and 0 are falsy.
Truthy(cd) == cd # Null /\ cd[1] # 0

\* note.creation_date after the loop body: an ISO date-time when converted, the
\* native column value when left alone.  (The factor 1000 only changes the
\* unit to milliseconds; native values are whole seconds here.)
ConvertCreationDate(cd) ==
  IF Truthy(cd)
  THEN [converted |-> TRUE, iso |-> <<ToISOString(cd[1] + AppleEpochOffset)>>, native |-> cd]
  ELSE [converted |-> FALSE, iso |-> Null, native |-> cd]

-----------------------------------------------------------------------------
\* ./utils.js: the vector index and the retrieval helpers.

\* Non-trashed notes in the order the rebuild visits them.
ListAllIndexable == SelectSeq(AllByModification, NotTrashed)

\* Notes whose embedding call may throw during a rebuild.
Flaky == {ListAllIndexable[k] : k \in 1..NumFlaky}

\* An index instance: the notes it holds and how many notes its build visited.
IndexOf(ids, scanned) == [ids |-> ids, scanned |-> scanned]

\* The persisted index restored by loadVectorIndex().
PersistedIndex == IndexOf({i \in NoteIds : NotTrashed(i)}, Len(ListAllIndexable))

\* Similarity of a note to a query, as an integer rank.
Score(q, i) == (i * (Len(q) + 2)) % 5

\* Higher score first; ties by the more recent modification.
Better(q, i, j) == Score(q, i) > Score(q, j) \/ (Score(q, i) = Score(q, j) /\ i <= j)

RECURSIVE TopK(_, _, _)
\* VectorIndex.query: the k best entries of S for query q, best first.
TopK(S, q, k) ==
  IF k <= 0 \/ S = {} THEN <<>>
  ELSE LET best == CHOOSE i \in S : \A j \in S : Better(q, i, j)
       IN <<best>> \o TopK(S \ {best}, q, k - 1)

\* keywordSearch: non-trashed notes whose title or body contains the query,
\* most recently modified first, capped at limit.
KeywordSearch(query, limit) ==
  LET Hit(i) == NotTrashed(i) /\ (Like(NoteTitle(i), query) \/ Like(NoteContent(i), query))
  IN Take(SelectSeq(AllByModification, Hit), limit)

\* searchNotes(db, query, limit, useSemanticSearch)
SearchNotes(index, query, limit, useSemanticSearch) ==
  IF useSemanticSearch THEN TopK(index[1].ids, query, limit)
  ELSE KeywordSearch(query, limit)

\* retrieveForRAG(db, query, limit)
RetrieveForRAG(index, query, limit) == TopK(index[1].ids, query, limit)

\* retrieveNote(db, id): the non-trashed note with that identifier, if any.
RetrieveNote(uid) == {i \in NoteIds : NotTrashed(i) /\ NoteUid(i) = uid}

\* getAllTags(db): the distinct tags of non-trashed notes.
GetAllTags ==
  UNION {{NoteTags(i)[k] : k \in 1..Len(NoteTags(i))} : i \in {n \in NoteIds : NotTrashed(n)}}

-----------------------------------------------------------------------------
\* src/bear-mcp-server.js: pure parts of initialize() and of the two handlers.

BaseTools ==
  {"search_notes", "get_note", "get_tags", "reindex_notes", "find_note_by_partial_id"}

\* Tool names a call-tool request may carry.
RequestNames == BaseTools \cup {"retrieve_for_rag", "delete_note"}

\* return { db, hasSemanticSearch: modelInitialized && indexLoaded }
HasSemanticSearch(m, l) == m /\ l

\* retrieve_for_rag advertised whatever the availability.
ListedTools_Always(has) == BaseTools \cup {"retrieve_for_rag"}

\* The list-tools handler: five tools, plus retrieve_for_rag when available.
ListedTools(has) == BaseTools \cup (IF has THEN {"retrieve_for_rag"} ELSE {})

\* The if-chain with the retrieve_for_rag branch unguarded.
Branch_Unguarded(name, has) ==
  IF name \in BaseTools \cup {"retrieve_for_rag"} THEN name ELSE "MethodNotFound"

\* The if-chain of the call-tool handler: the branch a tool name enters.
Branch(name, has) ==
  IF name = "search_notes" THEN "search_notes"
  ELSE IF name = "get_note" THEN "get_note"
  ELSE IF name = "get_tags" THEN "get_tags"
  ELSE IF name = "retrieve_for_rag" /\ has THEN "retrieve_for_rag"
  ELSE IF name = "reindex_notes" THEN "reindex_notes"
  ELSE IF name = "find_note_by_partial_id" THEN "find_note_by_partial_id"
  ELSE "MethodNotFound"

\* A `limit || d` default would also replace a limit of 0.
LimitOrDefault_Falsy(v, d) == IF v = Null \/ v[1] = 0 THEN d ELSE v[1]

\* { limit = d }: a destructuring default applies only to an undefined property.
LimitOrDefault(v, d) == IF v = Null THEN d ELSE v[1]

\* { semantic = true }
FlagOrDefault(v, d) == IF v = Null THEN d ELSE v[1]

\* The flag alone, without the availability resolved at startup.
UseSemanticSearch_FlagOnly(semantic, has) == semantic

\* const useSemanticSearch = semantic && hasSemanticSearch
UseSemanticSearch(semantic, has) == semantic /\ has

\* ${useSemanticSearch ? 'semantic' : 'keyword'}
StrategyName(use) == IF use THEN "semantic" ELSE "keyword"

\* The outcome of a request, as the caller and the log see it.
\*   seen: the index instance a semantic query read; inflight: whether a
\*   rebuild was part-way through its notes at that moment.
\*   kind: "tools" (a tool list), "result" (a content result of the operation),
\*         "failure" (a content result describing a caught error),
\*         "thrown" (the handler threw)
NoResponse ==
  [tool |-> "none", kind |-> "none", error |-> "none", cause |-> "none",
   path |-> "none", strategy |-> "none", args |-> Null, faults |-> {},
   notes |-> <<>>, count |-> 0, seen |-> Null, inflight |-> FALSE, tools |-> {}]

Result(tool, args) == [NoResponse EXCEPT !.tool = tool, !.kind = "result", !.args = args]

\* catch (error) { return { content: [{ text: `... failed: ${error.message}` }] } }
Failure(tool, args, cause) ==
  [NoResponse EXCEPT !.tool = tool, !.kind = "failure", !.args = args,
                     !.error = "Error", !.cause = cause]

\* An exception leaving the handler.
Thrown(tool, args, error, cause) ==
  [NoResponse EXCEPT !.tool = tool, !.kind = "thrown", !.args = args,
                     !.error = error, !.cause = cause]

\* search_notes branch; `raises` says whether the awaited searchNotes raises.
SearchResponse(has, index, busy, args, raises) ==
  IF args = Null
  THEN Thrown("search_notes", args, "TypeError", "absent_args")
  ELSE LET limit == LimitOrDefault(args[1].limit, DefaultSearchLimit)
           semantic == FlagOrDefault(args[1].semantic, TRUE)
           use == UseSemanticSearch(semantic, has)
           path == IF use THEN "semantic" ELSE "keyword"
       IN IF raises \/ (use /\ index = Null)
          THEN [Failure("search_notes", args, IF raises THEN "raised" ELSE "no_index")
                  EXCEPT !.path = path]
          ELSE LET notes == SearchNotes(index, args[1].query, limit, use)
               IN [Result("search_notes", args) EXCEPT
                     !.path = path, !.strategy = StrategyName(use),
                     !.notes = [k \in 1..Len(notes) |-> [id |-> NoteUid(notes[k])]],
                     !.count = Len(notes),
                     !.seen = IF use THEN index ELSE Null,
                     !.inflight = busy]

\* get_note branch.
GetNoteResponse(args, raises) ==
  IF args = Null
  THEN Thrown("get_note", args, "TypeError", "absent_args")
  ELSE LET found == RetrieveNote(args[1].id)
       IN IF raises THEN Failure("get_note", args, "raised")
          ELSE IF found = {} THEN Failure("get_note", args, "not_found")
          ELSE [Result("get_note", args) EXCEPT
                  !.notes = <<[id |-> args[1].id]>>, !.count = 1]

\* get_tags branch: the arguments are not read.
GetTagsResponse(args, raises) ==
  IF raises THEN Failure("get_tags", args, "raised")
  ELSE [Result("get_tags", args) EXCEPT !.count = Cardinality(GetAllTags)]

\* retrieve_for_rag branch (entered only when hasSemanticSearch).
RagResponse(index, busy, args, raises) ==
  IF args = Null
  THEN Thrown("retrieve_for_rag", args, "TypeError", "absent_args")
  ELSE LET limit == LimitOrDefault(args[1].limit, DefaultRagLimit)
       IN IF raises \/ index = Null
          THEN [Failure("retrieve_for_rag", args, IF raises THEN "raised" ELSE "no_index")
                  EXCEPT !.path = "semantic"]
          ELSE LET notes == RetrieveForRAG(index, args[1].query, limit)
               IN [Result("retrieve_for_rag", args) EXCEPT
                     !.path = "semantic",
                     !.notes = [k \in 1..Len(notes) |->
                                  [id |-> NoteUid(notes[k]),
                                   score |-> Score(args[1].query, notes[k])]],
                     !.count = Len(notes),
                     !.seen = index,
                     !.inflight = busy]

\* throw new McpError(ErrorCode.MethodNotFound, 'Tool not found')
NotFoundResponse(name, args) == Thrown(name, args, "MethodNotFound", "no_branch")

\* The first query of find_note_by_partial_id: WHERE ZTRASHED = 0 AND
\* (ZUNIQUEIDENTIFIER LIKE ? OR ZTITLE LIKE ?) ORDER BY ... LIMIT 10
FindMatches(f) ==
  LET Hit(i) == NotTrashed(i) /\ (Like(NoteUid(i), f) \/ Like(NoteTitle(i), f))
  IN Take(SelectSeq(AllByModification, Hit), PartialLimit)

\* One failed lookup empties the tag list of every note of the request.
LookupTags_AllEmptied(i, faults) == IF faults # {} THEN <<>> ELSE NoteTags(i)

\* try { note.tags = tags.map(...) } catch (tagError) { note.tags = [] }
\* `faults` are the notes whose tag query raises.
LookupTags(i, faults) == IF i \in faults THEN <<>> ELSE NoteTags(i)

\* The loop over the matching notes: tags, then the creation date.
FindNotes(matched, faults) ==
  [k \in 1..Len(matched) |->
     [id |-> NoteUid(matched[k]),
      tags |-> LookupTags(matched[k], faults),
      creation_date |-> ConvertCreationDate(NoteCreationDate(matched[k]))]]

\* find_note_by_partial_id branch; `raises` says whether the first query raises.
FindResponse(args, raises, faults) ==
  IF args = Null
  THEN Thrown("find_note_by_partial_id", args, "TypeError", "absent_args")
  ELSE IF raises THEN Failure("find_note_by_partial_id", args, "raised")
  ELSE LET matched == FindMatches(args[1].partial_id)
           hit == {matched[k] : k \in 1..Len(matched)}
       IN IF Len(matched) = 0
          THEN [Result("find_note_by_partial_id", args) EXCEPT !.cause = "no_match"]
          ELSE [Result("find_note_by_partial_id", args) EXCEPT
                  !.notes = FindNotes(matched, faults \cap hit),
                  !.count = Len(matched),
                  !.faults = faults \cap hit]

\* reindex_notes branch: the text returned once createVectorIndex settles.
ReindexResponse(args, ok, notesIndexed) ==
  IF ok THEN [Result("reindex_notes", args) EXCEPT !.count = notesIndexed]
  ELSE Failure("reindex_notes", args, "raised")

\* Availability recomputed from the outcome of the last reindex.
FlagAfterReindex_Recomputed(has, ok) == ok

\* hasSemanticSearch is a const binding of main(): no handler assigns it.
FlagAfterReindex(has, ok) == has

-----------------------------------------------------------------------------
\* Request inputs.

Limits == {Null} \cup {<<k>> : k \in 0..MaxLimit}

Flags == {Null, <<TRUE>>, <<FALSE>>}

SearchArgs ==
  {Null} \cup {<<[query |-> q, limit |-> l, semantic |-> s]>> :
                 q \in Fragments, l \in Limits, s \in Flags}

RagArgs == {Null} \cup {<<[query |-> q, limit |-> l]>> : q \in Fragments, l \in Limits}

GetNoteArgs == {Null} \cup {<<[id |-> u]>> : u \in {NoteUid(1), NoteUid(3), <<"9", "9">>}}

FindArgs == {Null} \cup {<<[partial_id |-> f]>> : f \in Fragments}

\* Arguments of the tools that read none: absent, or an empty object.
PlainArgs == {Null, <<"{}">>}

\* Notes whose tag query may raise.
FaultCandidates == {i \in NoteIds : i <= MaxTagFailures + 3}

\* Sets of at most MaxTagFailures such notes.
FaultSets ==
  {{}} \cup {{f[k] : k \in 1..MaxTagFailures} : f \in [1..MaxTagFailures -> FaultCandidates]}

\* Sets of flaky notes whose embedding fails in one rebuild.
SkipSets == SUBSET Flaky

Idle == [pc |-> "idle", cursor |-> 0, built |-> {}]

Busy == rebuild.pc = "building" /\ rebuild.cursor > 0

-----------------------------------------------------------------------------
\* State machine.

Init ==
  /\ phase = "starting"
  /\ db = "none"
  /\ hasSemanticSearch = FALSE
  /\ modelInitialized = FALSE
  /\ indexLoaded = FALSE
  /\ activeIndex = Null
  /\ rebuild = Idle
  /\ response = NoResponse

\* initialize() returns: m and l are the outcomes of initEmbedder() and
\* loadVectorIndex(); main() binds db and hasSemanticSearch and connects.
Initialize(m, l) ==
  /\ phase = "starting"
  /\ phase' = "ready"
  /\ db' = "open"
  /\ modelInitialized' = m
  /\ indexLoaded' = l
  /\ hasSemanticSearch' = HasSemanticSearch(m, l)
  /\ activeIndex' = IF l THEN <<PersistedIndex>> ELSE Null
  /\ UNCHANGED <<rebuild, response>>

\* initialize() throws (the store cannot be opened): main().catch exits.
InitializeFails ==
  /\ phase = "starting"
  /\ phase' = "exited"
  /\ UNCHANGED <<db, hasSemanticSearch, modelInitialized, indexLoaded,
                 activeIndex, rebuild, response>>

\* Every handler but reindex_notes answers and changes nothing else.
Answer(r) ==
  /\ response' = r
  /\ UNCHANGED <<phase, db, hasSemanticSearch, modelInitialized, indexLoaded,
                 activeIndex, rebuild>>

ListTools ==
  /\ phase = "ready"
  /\ Answer([NoResponse EXCEPT !.tool = "tools/list", !.kind = "tools",
                               !.tools = ListedTools(hasSemanticSearch)])

CallSearch(name, args, raises) ==
  /\ phase = "ready"
  /\ Branch(name, hasSemanticSearch) = "search_notes"
  /\ Answer(SearchResponse(hasSemanticSearch, activeIndex, Busy, args, raises))

CallGetNote(name, args, raises) ==
  /\ phase = "ready"
  /\ Branch(name, hasSemanticSearch) = "get_note"
  /\ Answer(GetNoteResponse(args, raises))

CallGetTags(name, args, raises) ==
  /\ phase = "ready"
  /\ Branch(name, hasSemanticSearch) = "get_tags"
  /\ Answer(GetTagsResponse(args, raises))

CallRetrieveForRag(name, args, raises) ==
  /\ phase = "ready"
  /\ Branch(name, hasSemanticSearch) = "retrieve_for_rag"
  /\ Answer(RagResponse(activeIndex, Busy, args, raises))

CallFindByPartial(name, args, raises, faults) ==
  /\ phase = "ready"
  /\ Branch(name, hasSemanticSearch) = "find_note_by_partial_id"
  /\ Answer(FindResponse(args, raises, faults))

CallNotFound(name, args) ==
  /\ phase = "ready"
  /\ Branch(name, hasSemanticSearch) = "MethodNotFound"
  /\ Answer(NotFoundResponse(name, args))

\* createVectorIndex(db), start to end: it raises when the embedding model is
\* unavailable or the store raises; otherwise it embeds every indexable note
\* but the `skipped` ones and swaps the new instance in.
CreateVectorIndex(current, modelOk, raises, skipped) ==
  LET ok == modelOk /\ ~raises
      built == {i \in NoteIds : NotTrashed(i)} \ skipped
  IN [ok |-> ok,
      index |-> IF ok THEN <<IndexOf(built, Len(ListAllIndexable))>> ELSE current,
      notesIndexed |-> Cardinality(built)]

\* reindex_notes, start to end.
CallReindex(name, args, raises, skipped) ==
  /\ phase = "ready"
  /\ rebuild.pc = "idle"
  /\ Branch(name, hasSemanticSearch) = "reindex_notes"
  /\ LET r == CreateVectorIndex(activeIndex, modelInitialized, raises, skipped)
     IN /\ activeIndex' = r.index
        /\ response' = ReindexResponse(args, r.ok, r.notesIndexed)
        /\ hasSemanticSearch' = FlagAfterReindex(hasSemanticSearch, r.ok)
  /\ UNCHANGED <<phase, db, modelInitialized, indexLoaded, rebuild>>

\* reindex_notes up to the first suspension inside createVectorIndex.
ReindexBegin(name, args) ==
  /\ phase = "ready"
  /\ rebuild.pc = "idle"
  /\ Branch(name, hasSemanticSearch) = "reindex_notes"
  /\ IF modelInitialized
     THEN /\ rebuild' = [pc |-> "building", cursor |-> 0, built |-> {}]
          /\ UNCHANGED <<response, hasSemanticSearch>>
     ELSE /\ response' = ReindexResponse(args, FALSE, 0)
          /\ hasSemanticSearch' = FlagAfterReindex(hasSemanticSearch, FALSE)
          /\ UNCHANGED rebuild
  /\ UNCHANGED <<phase, db, modelInitialized, indexLoaded, activeIndex>>

\* A rebuild that fills the active index in place, note by note.
RebuildStep_InPlace(ok) ==
  /\ rebuild.pc = "building"
  /\ rebuild.cursor < Len(ListAllIndexable)
  /\ LET note == ListAllIndexable[rebuild.cursor + 1]
         built == IF ok THEN rebuild.built \cup {note} ELSE rebuild.built
     IN /\ ok \/ note \in Flaky
        /\ rebuild' = [rebuild EXCEPT !.cursor = @ + 1, !.built = built]
        /\ activeIndex' = <<IndexOf(built, rebuild.cursor + 1)>>
  /\ UNCHANGED <<phase, db, hasSemanticSearch, modelInitialized, indexLoaded, response>>

\* The rebuild embeds its next note into the instance under construction;
\* a flaky note's embedding may throw, and the note is skipped.
RebuildStep(ok) ==
  /\ rebuild.pc = "building"
  /\ rebuild.cursor < Len(ListAllIndexable)
  /\ LET note == ListAllIndexable[rebuild.cursor + 1]
     IN /\ ok \/ note \in Flaky
        /\ rebuild' = [rebuild EXCEPT !.cursor = @ + 1,
                                      !.built = IF ok THEN @ \cup {note} ELSE @]
  /\ UNCHANGED <<phase, db, hasSemanticSearch, modelInitialized, indexLoaded,
                 activeIndex, response>>

\* The store raises during the rebuild: createVectorIndex rejects, the handler
\* reports the failure.
RebuildAbort ==
  /\ rebuild.pc = "building"
  /\ rebuild' = Idle
  /\ response' = ReindexResponse(<<"{}">>, FALSE, 0)
  /\ hasSemanticSearch' = FlagAfterReindex(hasSemanticSearch, FALSE)
  /\ UNCHANGED <<phase, db, modelInitialized, indexLoaded, activeIndex>>

\* Every note was visited: the new instance replaces the active one and the
\* handler reports the count.
RebuildFinish ==
  /\ rebuild.pc = "building"
  /\ rebuild.cursor = Len(ListAllIndexable)
  /\ activeIndex' = <<IndexOf(rebuild.built, rebuild.cursor)>>
  /\ rebuild' = Idle
  /\ response' = ReindexResponse(<<"{}">>, TRUE, Cardinality(rebuild.built))
  /\ hasSemanticSearch' = FlagAfterReindex(hasSemanticSearch, TRUE)
  /\ UNCHANGED <<phase, db, modelInitialized, indexLoaded>>

Next ==
  \/ \E m, l \in BOOLEAN : Initialize(m, l)
  \/ InitializeFails
  \/ ListTools
  \/ \E name \in RequestNames, raises \in BOOLEAN :
       \/ \E args \in SearchArgs : CallSearch(name, args, raises)
       \/ \E args \in GetNoteArgs : CallGetNote(name, args, raises)
       \/ \E args \in PlainArgs : CallGetTags(name, args, raises)
       \/ \E args \in RagArgs : CallRetrieveForRag(name, args, raises)
       \/ \E args \in FindArgs, faults \in (IF raises THEN {{}} ELSE FaultSets) :
            CallFindByPartial(name, args, raises, faults)
       \/ \E args \in PlainArgs, skipped \in SkipSets :
            CallReindex(name, args, raises, skipped)
       \/ \E args \in PlainArgs : CallNotFound(name, args)

Spec == Init /\ [][Next]_vars

\* Requests interleaved with a rebuild that suspends after every note.
InterleavedSearchArgs ==
  {<<[query |-> <<"n">>, limit |-> l, semantic |-> s]>> :
     l \in {Null, <<MaxLimit>>}, s \in {Null, <<FALSE>>}}

InterleavedRagArgs == {<<[query |-> <<"n">>, limit |-> Null]>>}

NextInterleaved ==
  \/ \E m, l \in BOOLEAN : Initialize(m, l)
  \/ \E args \in InterleavedSearchArgs : CallSearch("search_notes", args, FALSE)
  \/ \E args \in InterleavedRagArgs : CallRetrieveForRag("retrieve_for_rag", args, FALSE)
  \/ ReindexBegin("reindex_notes", <<"{}">>)
  \/ \E ok \in BOOLEAN : RebuildStep(ok)
  \/ RebuildAbort
  \/ RebuildFinish

SpecInterleaved == Init /\ [][NextInterleaved]_vars

-----------------------------------------------------------------------------
\* Properties.

KnownTools == BaseTools \cup {"retrieve_for_rag"}

IsoDate(y, mo, d) ==
  [year |-> y, month |-> mo, day |-> d, hour |-> 0, minute |-> 0, second |-> 0, ms |-> 0]

Complete(index) == index # Null => index[1].scanned = Len(ListAllIndexable)

\* C1: a search request that reaches searchNotes takes the semantic path
\* exactly when its semantic flag is not false and both initEmbedder() and
\* loadVectorIndex() succeeded at startup; otherwise it takes the keyword
\* path.  The fallback is never reported as a failure (a failure result only
\* comes from a query that raised), and a result names the path taken.
C1_SearchPathSelection ==
  (response.tool = "search_notes" /\ response.kind \in {"result", "failure"}) =>
    /\ response.path = "semantic" <=>
         (response.args[1].semantic # <<FALSE>> /\ modelInitialized /\ indexLoaded)
    /\ response.path # "semantic" => response.path = "keyword"
    /\ response.kind = "result" => response.strategy = response.path
    /\ response.kind = "failure" => response.cause = "raised"

C1_Witness ==
  /\ response.tool = "search_notes"
  /\ response.kind = "result"
  /\ response.args[1].semantic = <<TRUE>>
  /\ ~modelInitialized
  /\ response.strategy = "keyword"
  /\ response.count > 0

\* C2: a retrieve_for_rag request made while semantic search is not
\* available ends in an error thrown to the caller (method not found), with
\* no keyword search and no notes returned; when it is available, a request
\* with arguments uses the semantic retrieval path.
C2_RagNeverFallsBack ==
  response.tool = "retrieve_for_rag" =>
    IF hasSemanticSearch
    THEN response.args # Null => response.path = "semantic"
    ELSE /\ response.kind = "thrown"
         /\ response.error = "MethodNotFound"
         /\ response.path = "none"
         /\ response.notes = <<>>

C2_Witness ==
  /\ response.tool = "retrieve_for_rag"
  /\ ~hasSemanticSearch
  /\ ~modelInitialized
  /\ activeIndex # Null
  /\ response.kind = "thrown"

\* C3: once semantic search is available it stays available, and a step that
\* ends in a failed reindex leaves the active index as it was.
C3_FailedReindexKeepsIndex ==
  [][hasSemanticSearch =>
       /\ hasSemanticSearch'
       /\ (response'.tool = "reindex_notes" /\ response'.kind = "failure")
            => activeIndex' = activeIndex]_vars

C3_Witness ==
  /\ hasSemanticSearch
  /\ response.tool = "reindex_notes"
  /\ response.kind = "failure"
  /\ activeIndex = <<PersistedIndex>>

\* C4: when the embedding model initialized, no index was loaded at startup
\* and a reindex has since succeeded (an index is now active), a search with
\* semantic not false takes the semantic path.
C4_ReindexMakesSemanticAvailable ==
  (/\ modelInitialized
   /\ ~indexLoaded
   /\ activeIndex # Null
   /\ response.tool = "search_notes"
   /\ response.kind = "result"
   /\ response.args[1].semantic # <<FALSE>>)
  => response.path = "semantic"

\* C5: a call to a known tool whose operation raises, whose identifier is not
\* found or whose arguments are absent ends in a structured failure result:
\* the handler does not throw.
C5_KnownToolsNeverThrow ==
  (response.tool \in KnownTools
   /\ response.cause \in {"raised", "not_found", "absent_args"})
  => response.kind = "failure"

\* C6: a search given a limit returns at most that many notes, and
\* find_note_by_partial_id returns at most 10.
C6_ResultsCapped ==
  /\ (response.tool = "search_notes" /\ response.kind = "result"
       /\ response.args[1].limit # Null)
       => Len(response.notes) <= response.args[1].limit[1]
  /\ (response.tool = "find_note_by_partial_id" /\ response.kind = "result")
       => Len(response.notes) <= 10

C6_Witness ==
  /\ response.tool = "search_notes"
  /\ response.kind = "result"
  /\ response.args[1].limit = <<0>>
  /\ response.strategy = "semantic"
  /\ Cardinality(response.seen[1].ids) > 0

\* C7: every note returned by find_note_by_partial_id with a creation date
\* carries it converted, 0 as 2001-01-01T00:00:00Z and 31536000 as
\* 2002-01-01T00:00:00Z.
C7_TimestampsConverted ==
  (response.tool = "find_note_by_partial_id" /\ response.kind = "result") =>
    \A k \in 1..Len(response.notes) :
      LET cd == response.notes[k].creation_date
      IN /\ cd.native # Null => cd.converted
         /\ cd.native = <<0>> => cd.iso = <<IsoDate(2001, 1, 1)>>
         /\ cd.native = <<31536000>> => cd.iso = <<IsoDate(2002, 1, 1)>>

\* C8: the active index is at every moment an instance whose build visited
\* every indexable note, and so is the instance any semantic query read,
\* also a query that ran while a rebuild was part-way through.
C8_NoPartialIndexObserved ==
  /\ Complete(activeIndex)
  /\ Complete(response.seen)

C8_Witness ==
  /\ response.tool = "search_notes"
  /\ response.inflight
  /\ response.seen # Null
  /\ rebuild.pc = "building"
  /\ rebuild.cursor < Len(ListAllIndexable)

\* C9: a find_note_by_partial_id result lists every matching note in the
\* order of the query, a note whose tag lookup failed with an empty tag list
\* and every other note with its own tags.
C9_TagFailureIsLocal ==
  (response.tool = "find_note_by_partial_id" /\ response.kind = "result"
   /\ response.cause # "no_match") =>
    LET matched == FindMatches(response.args[1].partial_id)
    IN /\ Len(response.notes) = Len(matched)
       /\ \A k \in 1..Len(matched) :
            /\ response.notes[k].id = NoteUid(matched[k])
            /\ response.notes[k].tags =
                 IF matched[k] \in response.faults THEN <<>> ELSE NoteTags(matched[k])

C9_Witness ==
  /\ response.tool = "find_note_by_partial_id"
  /\ response.kind = "result"
  /\ response.faults # {}
  /\ Len(response.notes) > 1
  /\ \E k \in 1..Len(response.notes) : response.notes[k].tags # <<>>

\* C10: the tools the list-tools handler returns are exactly the names the
\* call-tool handler dispatches: the five base tools always, retrieve_for_rag
\* exactly when hasSemanticSearch; a call is rejected with method-not-found
\* exactly when its name is not listed, and such a step leaves the store
\* handle, the availability and the index alone.
C10_ListedIffDispatched ==
  /\ [](/\ response.kind = "tools" =>
             /\ BaseTools \subseteq response.tools
             /\ response.tools =
                  {n \in RequestNames : Branch(n, hasSemanticSearch) # "MethodNotFound"}
        /\ response.tool \in RequestNames =>
             (response.error = "MethodNotFound"
                <=> response.tool \notin ListedTools(hasSemanticSearch)))
  /\ [][response'.error = "MethodNotFound" =>
          UNCHANGED <<db, hasSemanticSearch, activeIndex, rebuild>>]_vars

C10_Witness ==
  /\ response.tool = "delete_note"
  /\ response.error = "MethodNotFound"
  /\ db = "open"
  /\ hasSemanticSearch

====
